---- MODULE Spec2Model ----
(***************************************************************************)
(* The manifest-driven updater of RemoteUpdateTesting (src/updater.py):    *)
(* check_updates_available and update_files_from_github, run against a     *)
(* remote repository and a local directory.                                *)
(*                                                                         *)
(* A call is modelled step by step: one action per network hop, per local  *)
(* file operation and per decision of the code.  Every outcome the network *)
(* or the file system can give a step is an input of that step.            *)
(***************************************************************************)
EXTENDS Naturals, Sequences, FiniteSets, TLC

VARIABLES
    remote,   \* the repository: [rev, manifest], manifest is the JSON object
    disk,     \* local_dir: path -> content of the file at that path
    run,      \* per process: the locals of the call it is executing
    active,   \* the processes that may call into the updater
    prev      \* per process: its previous call, its result and the revision it saw

vars == <<remote, disk, run, active, prev>>

-----------------------------------------------------------------------------
(* Bounds of the model.                                                    *)

MaxFiles == 3       \* longest 'files' list of a remote manifest
MaxSeqFiles == 1    \* longest 'files' list in the specification of repeated calls
MaxPublish == 1     \* how many times the repository is republished
MaxConcFiles == 1   \* longest 'files' list in the specification of two processes
MaxLiveFiles == 2   \* longest 'files' list in the specification with fairness

-----------------------------------------------------------------------------
(* Paths, versions and manifests.                                          *)

Procs == {1, 2}

\* manifest_path as the GUI passes it (gui.py:52 and :66).
ManifestPath == "manifest.json"

\* The ordinary files of the repository, in a fixed order.
RegularPaths == <<"main.py", "gui.py", "updater.py">>

Paths == {RegularPaths[i] : i \in 1..Len(RegularPaths)} \cup {ManifestPath}

\* The default of .get('version', '0.0.0') and of the absent local manifest.
SentinelVersion == "0.0.0"

Versions == {SentinelVersion, "1.0.0", "2.0.0"}

\* dict.get(key, default)
Get(d, key, default) == IF key \in DOMAIN d THEN d[key] ELSE default

\* The local manifest the code assumes before it looks at the disk.
DefaultLocalSync == [version |-> SentinelVersion, files |-> <<>>]
\* A default of the check with another version than the update's.
DefaultLocalCheckVersioned == [version |-> "1.0.0"]

DefaultLocalCheck == [version |-> SentinelVersion]

SeqsUpTo(S, n) == UNION {[1..k -> S] : k \in 0..n}

IndexOf(p) == IF p = ManifestPath THEN 0
              ELSE CHOOSE i \in 1..Len(RegularPaths) : RegularPaths[i] = p

\* Ordinary paths are interchangeable: a list is taken up to their renaming,
\* its ordinary paths first appearing in the order of RegularPaths.
Canonical(files) ==
    \A i \in 1..Len(files) :
        \A k \in 1..(IndexOf(files[i]) - 1) :
            \E j \in 1..(i - 1) : files[j] = RegularPaths[k]

FileLists(n) == {f \in SeqsUpTo(Paths, n) : Canonical(f)}

\* The JSON objects a remote manifest.json may hold: 'version' and 'files'
\* are each present or not.
Manifests(n) ==
    {[version |-> v, files |-> f] : v \in Versions, f \in FileLists(n)}
    \cup {[files |-> f] : f \in FileLists(n)}
    \cup {[version |-> v] : v \in Versions}

-----------------------------------------------------------------------------
(* File contents.                                                          *)

Absent == [t |-> "absent"]
Old == [t |-> "old"]                 \* what an ordinary file held before
Garbage == [t |-> "garbage"]         \* a manifest file that is not a JSON object
Torn == [t |-> "torn"]               \* a file truncated by a write that failed

\* The bytes the repository serves for path p.
RawBytes(p) ==
    IF p = ManifestPath
    THEN [t |-> "raw", path |-> p, rev |-> remote.rev, json |-> remote.manifest]
    ELSE [t |-> "raw", path |-> p, rev |-> remote.rev]

\* The body of a non-200 answer of a download URL.
ErrorBody(p) == [t |-> "errbody", path |-> p]

\* A dump that writes the default version in place of the remote one.
JsonDumpDefaultVersion(m) ==
    [t |-> "dump",
     json |-> [version |-> SentinelVersion, files |-> Get(m, "files", <<>>)]]

\* A dump that keeps the file list only.
JsonDumpFilesOnly(m) == [t |-> "dump", json |-> [files |-> Get(m, "files", <<>>)]]

\* json.dump(manifest, f, indent=2)
JsonDump(m) == [t |-> "dump", json |-> m]

\* json.load(f): the object, or a failure.
Loadable(c) == c.t \in {"raw", "dump"} /\ "json" \in DOMAIN c
JsonLoad(c) == c.json

-----------------------------------------------------------------------------
(* Results and messages.                                                   *)

\* An error message: its wording and the file path it names.
Msg(form, p) == [form |-> form, path |-> p]

\* The messages of the manifest's resolution name a URL or an exception.
NoPath == ""

NoResult == [kind |-> "none"]

SyncResult(status, updated, errs) ==
    [kind |-> "sync", status |-> status, updated_files |-> updated, errors |-> errs]

CheckResult(avail, version, errs) ==
    [kind |-> "check", update_available |-> avail, remote_version |-> version,
     errors |-> errs]

NoVersion == "None"

\* A failure that returns no error entry.
TopLevelFailureNoError(op, form) ==
    IF op = "sync"
    THEN SyncResult("failed", <<>>, <<>>)
    ELSE CheckResult(FALSE, NoVersion, <<>>)

\* What both functions return when the manifest cannot be resolved or an
\* exception reaches the outer handler.
TopLevelFailure(op, form) ==
    IF op = "sync"
    THEN SyncResult("failed", <<>>, <<Msg(form, NoPath)>>)
    ELSE CheckResult(FALSE, NoVersion, <<Msg(form, NoPath)>>)

ExceptionForm(op) == IF op = "sync" THEN "Update failed" ELSE "Update check failed"

NoManifest == [none |-> TRUE]

IdleRun ==
    [pc |-> "idle", op |-> "none",
     remote_manifest_content |-> NoManifest, local_manifest |-> NoManifest,
     updated_files |-> <<>>, errors |-> <<>>,
     idx |-> 0, file_content |-> Absent,
     requests |-> 0, result |-> NoResult,
     \* history of the call, read by no step
     before |-> Absent,    \* the local manifest file when the call began
     rev0 |-> 0,           \* the repository's revision when the call began
     entered |-> FALSE,    \* the call entered the file loop
     opened |-> {},        \* the local paths the call opened for writing
     saved |-> "no",       \* how the write of the local manifest went
     stage |-> <<>>,       \* per entry done: "ok", or the stage that failed
     written |-> <<>>,     \* per element of updated_files: the bytes written
     order |-> "first"]    \* the call began "first", "after" or in "overlap"

NoPrev == [op |-> "none", result |-> NoResult, rev0 |-> 0]

-----------------------------------------------------------------------------
(* Steps of a call.                                                        *)

Return(r, res) ==
    run' = [run EXCEPT ![r] = [@ EXCEPT !.pc = "done", !.result = res]]

\* How a call of r stands to the calls of the other processes when it
\* begins: none has begun, all that began are over, or one is under way.
CallOrder(r) ==
    IF \A q \in Procs \ {r} : run[q].pc = "idle" THEN "first"
    ELSE IF \A q \in Procs \ {r} : run[q].pc \in {"idle", "done"} THEN "after"
    ELSE "overlap"

\* os.makedirs(local_dir, exist_ok=True), the URL and the headers.
Call(r, op) ==
    /\ r \in active
    /\ run[r].pc = "idle"
    /\ \E made \in {"ok", "oserror"} :
        IF made = "ok"
        THEN run' = [run EXCEPT ![r] =
                 [IdleRun EXCEPT !.pc = "manifest_meta", !.op = op,
                                 !.before = disk[ManifestPath],
                                 !.rev0 = remote.rev,
                                 !.order = CallOrder(r)]]
        ELSE run' = [run EXCEPT ![r] =
                 [IdleRun EXCEPT !.pc = "done", !.op = op,
                                 !.before = disk[ManifestPath],
                                 !.rev0 = remote.rev,
                                 !.order = CallOrder(r),
                                 !.result = TopLevelFailure(op, ExceptionForm(op))]]
    /\ UNCHANGED <<remote, disk, active, prev>>

\* requests.get(remote_manifest_url), the 404 and 403 branches,
\* raise_for_status(), response.json() and its 'download_url'.
ManifestMetaOutcomes == {"200", "404", "403", "500", "fault", "badbody"}

ManifestMetaHop(r) ==
    /\ run[r].pc = "manifest_meta"
    /\ \E o \in ManifestMetaOutcomes :
        LET op == run[r].op
            issued == [run[r] EXCEPT !.requests = @ + 1] IN
        CASE o = "200" ->
                run' = [run EXCEPT ![r] = [issued EXCEPT !.pc = "manifest_content"]]
          [] o = "404" ->
                run' = [run EXCEPT ![r] = [issued EXCEPT !.pc = "done",
                          !.result = TopLevelFailure(op, "Manifest file not found")]]
          [] o = "403" ->
                run' = [run EXCEPT ![r] = [issued EXCEPT !.pc = "done",
                          !.result = TopLevelFailure(op, "Access forbidden")]]
          [] OTHER ->
                run' = [run EXCEPT ![r] = [issued EXCEPT !.pc = "done",
                          !.result = TopLevelFailure(op, ExceptionForm(op))]]
    /\ UNCHANGED <<remote, disk, active, prev>>

\* requests.get(download_url), the status test and manifest_response.json().
\* A body that is no JSON object fails in json() or in the later .get().
ManifestContentOutcomes == {"200", "non200", "fault", "malformed"}

ManifestContentHop(r) ==
    /\ run[r].pc = "manifest_content"
    /\ \E o \in ManifestContentOutcomes :
        LET op == run[r].op
            issued == [run[r] EXCEPT !.requests = @ + 1] IN
        CASE o = "200" ->
                run' = [run EXCEPT ![r] = [issued EXCEPT !.pc = "load_local",
                          !.remote_manifest_content = remote.manifest]]
          [] o = "non200" ->
                run' = [run EXCEPT ![r] = [issued EXCEPT !.pc = "done",
                          !.result = TopLevelFailure(op, "Failed to fetch manifest content")]]
          [] OTHER ->
                run' = [run EXCEPT ![r] = [issued EXCEPT !.pc = "done",
                          !.result = TopLevelFailure(op, ExceptionForm(op))]]
    /\ UNCHANGED <<remote, disk, active, prev>>

\* The locals after os.path.exists(local_manifest_path), open(..., 'r') and
\* json.load(f) have met content c at the manifest's local path.
Loaded(st, c) ==
    IF c = Absent
    THEN [st EXCEPT !.pc = "version_gate",
                    !.local_manifest =
                        IF st.op = "sync" THEN DefaultLocalSync ELSE DefaultLocalCheck]
    ELSE IF Loadable(c)
    THEN [st EXCEPT !.pc = "version_gate", !.local_manifest = JsonLoad(c)]
    ELSE [st EXCEPT !.pc = "done",
                    !.result = TopLevelFailure(st.op, ExceptionForm(st.op))]

\* A load that creates the manifest file it does not find.
LoadLocalManifestCreating(r) ==
    /\ run[r].pc = "load_local"
    /\ run' = [run EXCEPT ![r] = Loaded(@, disk[ManifestPath])]
    /\ disk' = IF disk[ManifestPath] = Absent
               THEN [disk EXCEPT ![ManifestPath] = JsonDump(DefaultLocalSync)]
               ELSE disk
    /\ UNCHANGED <<remote, active, prev>>

LoadLocalManifest(r) ==
    /\ run[r].pc = "load_local"
    /\ run' = [run EXCEPT ![r] = Loaded(@, disk[ManifestPath])]
    /\ UNCHANGED <<remote, disk, active, prev>>

remote_version(r) == Get(run[r].remote_manifest_content, "version", SentinelVersion)
local_version(r) == Get(run[r].local_manifest, "version", SentinelVersion)

\* The versions in release order, for a gate that would compare them.
Rank(v) == CASE v = "0.0.0" -> 0 [] v = "1.0.0" -> 1 [] OTHER -> 2

\* A gate that updates only to a newer version.
VersionsNewer(r) == Rank(remote_version(r)) > Rank(local_version(r))

\* A gate that compares the manifests, not their versions.
ManifestsDiffer(r) == run[r].remote_manifest_content # run[r].local_manifest

\* if remote_version != local_version:
VersionsDiffer(r) == remote_version(r) # local_version(r)

\* remote_manifest_content.get('files', [])
files(r) == Get(run[r].remote_manifest_content, "files", <<>>)
file_path(r) == files(r)[run[r].idx]

\* A loop that asks again for the entry whose metadata hop failed.
NextFileRetrying(st, n, tag) ==
    IF tag = "meta"
    THEN [st EXCEPT !.file_content = Absent, !.stage = Append(@, tag),
                    !.pc = "file_meta"]
    ELSE [st EXCEPT !.idx = @ + 1, !.file_content = Absent,
                    !.stage = Append(@, tag),
                    !.pc = IF st.idx + 1 > n THEN "save" ELSE "file_meta"]

\* The end of one iteration of 'for file_path in ...': the next entry, or
\* the statement after the loop.
NextFile(st, n, tag) ==
    [st EXCEPT !.idx = @ + 1, !.file_content = Absent,
               !.stage = Append(@, tag),
               !.pc = IF st.idx + 1 > n THEN "save" ELSE "file_meta"]

EnterLoop(st, n) ==
    [st EXCEPT !.idx = 1, !.entered = TRUE,
               !.pc = IF n = 0 THEN "save" ELSE "file_meta"]

\* The comparison of the two versions: the check returns on it, the update
\* enters the file loop or returns no_update_needed.
VersionGate(r) ==
    /\ run[r].pc = "version_gate"
    /\ IF run[r].op = "check"
       THEN Return(r, CheckResult(VersionsDiffer(r), remote_version(r), <<>>))
       ELSE IF VersionsDiffer(r)
       THEN run' = [run EXCEPT ![r] = EnterLoop(@, Len(files(r)))]
       ELSE Return(r, SyncResult("no_update_needed", <<>>, <<>>))
    /\ UNCHANGED <<remote, disk, active, prev>>

\* A handler after an append to updated_files that came before the write.
FileExceptionAfterAppend(st, p, n, tag) ==
    NextFile([st EXCEPT !.errors = Append(@, Msg("Failed to update", p)),
                        !.updated_files = Append(@, p)], n, tag)

\* A handler that puts its message before the earlier ones.
FileExceptionPrepending(st, p, n, tag) ==
    NextFile([st EXCEPT !.errors = <<Msg("Failed to update", p)>> \o @], n, tag)

\* except Exception as e: errors.append(f"Failed to update {file_path}: ...")
FileException(st, p, n, tag) ==
    NextFile([st EXCEPT !.errors = Append(@, Msg("Failed to update", p))], n, tag)

\* requests.get(file_url) and the test of its status.
FileMetaOutcomes == {"200", "non200", "fault"}

FileMetaHop(r) ==
    /\ run[r].pc = "file_meta"
    /\ \E o \in FileMetaOutcomes :
        LET p == file_path(r)
            n == Len(files(r))
            issued == [run[r] EXCEPT !.requests = @ + 1] IN
        CASE o = "200" ->
                run' = [run EXCEPT ![r] = [issued EXCEPT !.pc = "file_content"]]
          [] o = "non200" ->
                run' = [run EXCEPT ![r] =
                    NextFile([issued EXCEPT
                        !.errors = Append(@, Msg("Failed to fetch file", p))],
                             n, "meta")]
          [] OTHER ->
                run' = [run EXCEPT ![r] = FileException(issued, p, n, "meta")]
    /\ UNCHANGED <<remote, disk, active, prev>>

\* file_response.json(), its 'download_url', and
\* requests.get(download_url).content, whose status is not looked at.
FileContentOutcomes == {"200", "non200", "fault", "badmeta"}

FileContentHop(r) ==
    /\ run[r].pc = "file_content"
    /\ \E o \in FileContentOutcomes :
        LET p == file_path(r)
            n == Len(files(r))
            issued == [run[r] EXCEPT !.requests = @ + 1] IN
        CASE o = "200" ->
                run' = [run EXCEPT ![r] = [issued EXCEPT !.pc = "file_write",
                                                  !.file_content = RawBytes(p)]]
          [] o = "non200" ->
                run' = [run EXCEPT ![r] = [issued EXCEPT !.pc = "file_write",
                                                  !.file_content = ErrorBody(p)]]
          [] o = "fault" ->
                run' = [run EXCEPT ![r] = FileException(issued, p, n, "content")]
          [] OTHER ->
                run' = [run EXCEPT ![r] = FileException(run[r], p, n, "meta")]
    /\ UNCHANGED <<remote, disk, active, prev>>

\* What a write to a local file can do: complete, fail before the file is
\* opened (os.makedirs or open raises), or fail after open has truncated it.
WriteOutcomes == {"ok", "oserror", "torn"}

\* os.makedirs(dirname), open(local_file_path, 'wb'), f.write(file_content)
\* and updated_files.append(file_path).
FileWrite(r) ==
    /\ run[r].pc = "file_write"
    /\ \E o \in WriteOutcomes :
        LET p == file_path(r)
            n == Len(files(r))
            st == run[r]
            fetched == st.file_content.t = "raw" IN
        CASE o = "ok" ->
                /\ disk' = [disk EXCEPT ![p] = st.file_content]
                /\ run' = [run EXCEPT ![r] =
                     NextFile([st EXCEPT !.updated_files = Append(@, p),
                                         !.written = Append(@, st.file_content),
                                         !.opened = @ \cup {p}], n,
                              IF fetched THEN "ok" ELSE "content")]
          [] o = "torn" ->
                /\ disk' = [disk EXCEPT ![p] = Torn]
                /\ run' = [run EXCEPT ![r] =
                     FileException([st EXCEPT !.opened = @ \cup {p}], p, n,
                                   IF fetched THEN "write" ELSE "content")]
          [] OTHER ->
                /\ disk' = disk
                /\ run' = [run EXCEPT ![r] =
                     FileException(st, p, n,
                                   IF fetched THEN "write" ELSE "content")]
    /\ UNCHANGED <<remote, active, prev>>

\* A test that never saves.
ShouldSaveNever(updated, errs) == FALSE

\* The test with its second half inverted.
ShouldSaveInverted(updated, errs) == updated # <<>> /\ errs # <<>>

\* if updated_files and not errors:
ShouldSave(updated, errs) == updated # <<>> /\ errs = <<>>

\* The statement after the loop: the local manifest is overwritten with
\* json.dump(remote_manifest_content) when ShouldSave; an exception of the
\* write reaches the outer handler.
SaveManifest(r) ==
    /\ run[r].pc = "save"
    /\ LET st == run[r] IN
        IF ShouldSave(st.updated_files, st.errors)
        THEN \E o \in WriteOutcomes :
            CASE o = "ok" ->
                    /\ disk' = [disk EXCEPT
                                  ![ManifestPath] = JsonDump(st.remote_manifest_content)]
                    /\ run' = [run EXCEPT ![r] =
                                  [st EXCEPT !.pc = "classify", !.saved = "ok",
                                             !.opened = @ \cup {ManifestPath}]]
              [] o = "torn" ->
                    /\ disk' = [disk EXCEPT ![ManifestPath] = Torn]
                    /\ run' = [run EXCEPT ![r] =
                                  [st EXCEPT !.pc = "done", !.saved = "torn",
                                             !.opened = @ \cup {ManifestPath},
                                             !.result = TopLevelFailure("sync", "Update failed")]]
              [] OTHER ->
                    /\ disk' = disk
                    /\ run' = [run EXCEPT ![r] =
                                  [st EXCEPT !.pc = "done", !.saved = "oserror",
                                             !.result = TopLevelFailure("sync", "Update failed")]]
        ELSE /\ disk' = disk
             /\ run' = [run EXCEPT ![r] = [st EXCEPT !.pc = "classify"]]
    /\ UNCHANGED <<remote, active, prev>>

\* A classification that calls a run without files and errors a no-op.
StatusNoUpdateWhenNothingDone(updated, errs) ==
    IF errs = <<>> /\ updated = <<>> THEN "no_update_needed"
    ELSE IF errs = <<>> THEN "success"
    ELSE IF updated # <<>> THEN "partial" ELSE "failed"

\* The classification with partial and failed exchanged.
StatusExchanged(updated, errs) ==
    IF errs = <<>> THEN "success"
    ELSE IF updated # <<>> THEN "failed" ELSE "partial"

\* status = 'success' if not errors else 'partial' if updated_files else 'failed'
Status(updated, errs) ==
    IF errs = <<>> THEN "success"
    ELSE IF updated # <<>> THEN "partial" ELSE "failed"

Classify(r) ==
    /\ run[r].pc = "classify"
    /\ Return(r, SyncResult(Status(run[r].updated_files, run[r].errors),
                            run[r].updated_files, run[r].errors))
    /\ UNCHANGED <<remote, disk, active, prev>>

-----------------------------------------------------------------------------
(* One call of one process, from every local state.                       *)

\* The manifests a local_dir may hold from an earlier update.
LocalManifests == {[version |-> "1.0.0", files |-> <<>>], [files |-> <<>>]}

LocalManifestFiles == {Absent, Garbage} \cup {JsonDump(m) : m \in LocalManifests}

\* local_dir is the installed application (gui.py:53 and :67 pass '.'): its
\* files are there, its manifest is any of LocalManifestFiles.
InitialDisks ==
    {[p \in Paths |-> IF p = ManifestPath THEN c ELSE Old] :
        c \in LocalManifestFiles}

Init ==
    /\ remote \in {[rev |-> 0, manifest |-> m] : m \in Manifests(MaxFiles)}
    /\ disk \in InitialDisks
    /\ run = [r \in Procs |-> IdleRun]
    /\ active = {1}
    /\ prev = [r \in Procs |-> NoPrev]

Step(r) ==
    \/ ManifestMetaHop(r)
    \/ ManifestContentHop(r)
    \/ LoadLocalManifest(r)
    \/ VersionGate(r)
    \/ FileMetaHop(r)
    \/ FileContentHop(r)
    \/ FileWrite(r)
    \/ SaveManifest(r)
    \/ Classify(r)

Next ==
    \E r \in Procs :
        \/ \E op \in {"sync", "check"} : Call(r, op)
        \/ Step(r)

Spec == Init /\ [][Next]_vars
-----------------------------------------------------------------------------
(* Calls in succession, against a repository that may be republished.     *)

\* The caller takes the result; the process may call again.
Again(r) ==
    /\ run[r].pc = "done"
    /\ prev' = [prev EXCEPT ![r] = [op |-> run[r].op, result |-> run[r].result,
                                    rev0 |-> run[r].rev0]]
    /\ run' = [run EXCEPT ![r] = IdleRun]
    /\ UNCHANGED <<remote, disk, active>>

\* A push to the branch: a release under another version, with new
\* contents of the files it lists.
Publish ==
    /\ remote.rev < MaxPublish
    /\ \E v \in Versions \ {Get(remote.manifest, "version", NoVersion)} :
            remote' = [rev |-> remote.rev + 1,
                       manifest |-> [version |-> v,
                                     files |-> Get(remote.manifest, "files", <<>>)]]
    /\ UNCHANGED <<disk, run, active, prev>>

\* A fresh install: local_dir holds neither a manifest nor a listed file.
InitSeq ==
    /\ remote \in {[rev |-> 0, manifest |-> m] : m \in Manifests(MaxSeqFiles)}
    /\ disk = [p \in Paths |-> Absent]
    /\ run = [r \in Procs |-> IdleRun]
    /\ active = {1}
    /\ prev = [r \in Procs |-> NoPrev]

NextSeq ==
    \/ \E r \in Procs :
        \/ \E op \in {"sync", "check"} : Call(r, op)
        \/ Step(r)
        \/ Again(r)
    \/ Publish

SpecSeq == InitSeq /\ [][NextSeq]_vars

-----------------------------------------------------------------------------
(* Properties of one call.                                                 *)

SyncDone(r) == run[r].op = "sync" /\ run[r].pc = "done"
CheckDone(r) == run[r].op = "check" /\ run[r].pc = "done"

\* The call went through the whole file loop.
LoopCompleted(r) == run[r].entered /\ Len(run[r].stage) = Len(files(r))

ManifestChanged(r) == disk[ManifestPath] # run[r].before

\* The entries whose fetch failed: one of the two hops did not answer 200,
\* raised, or the metadata was unusable.
FetchFailed == {"meta", "content"}

NoRepeats(f) == \A i, j \in 1..Len(f) : f[i] = f[j] => i = j

Listed(f) == {f[i] : i \in 1..Len(f)}

\* C1: a run of update_files_from_github changes the local manifest file
\* only if it ends with updated_files non-empty and errors empty.  This is
\* the claim as made, for every file list; it is stated here of the lists
\* that repeat no path and of the runs in which no write was cut short.
C1_ManifestChangedOnlyOnFullSuccess ==
    \A r \in Procs :
        ( /\ SyncDone(r)
          /\ NoRepeats(files(r))
          /\ ManifestChanged(r)
          /\ disk[ManifestPath] # Torn )
            => (run[r].updated_files # <<>> /\ run[r].errors = <<>>)
\* C2: with versions differing and files [A, B, C], three ordinary files, of
\* which fetching B fails while A and C are fetched and written, the result
\* is partial with updated_files [A, C] and one error naming B, and the
\* local manifest is left alone; and a run that entered the loop goes
\* through every entry whatever failed before it.  Stated of the runs in
\* which no write of the local manifest failed.
C2_PartialIsolation ==
    \A r \in Procs :
        (SyncDone(r) /\ run[r].entered /\ run[r].saved \in {"no", "ok"}) =>
            /\ Len(run[r].stage) = Len(files(r))
            /\ ( /\ Len(files(r)) = 3
                 /\ NoRepeats(files(r))
                 /\ ManifestPath \notin Listed(files(r))
                 /\ run[r].stage[1] = "ok"
                 /\ run[r].stage[2] \in FetchFailed
                 /\ run[r].stage[3] = "ok" )
               => /\ run[r].result.status = "partial"
                  /\ run[r].result.updated_files = <<files(r)[1], files(r)[3]>>
                  /\ Len(run[r].result.errors) = 1
                  /\ run[r].result.errors[1].path = files(r)[2]
                  /\ ~ManifestChanged(r)

\* C7: a run that completes the file loop has one element of updated_files
\* or of errors per entry of the file list; and when the fetch of every
\* entry fails the result is failed, with no updated file and one error per
\* entry.  The second part is stated of non-empty lists of ordinary files.
C7_OneResultPerEntry ==
    \A r \in Procs :
        (SyncDone(r) /\ run[r].entered) =>
            /\ Len(run[r].updated_files) + Len(run[r].errors) = Len(files(r))
            /\ ( /\ files(r) # <<>>
                 /\ ManifestPath \notin Listed(files(r))
                 /\ run[r].saved \in {"no", "ok"}
                 /\ \A i \in 1..Len(files(r)) : run[r].stage[i] \in FetchFailed )
               => /\ run[r].result.status = "failed"
                  /\ run[r].result.updated_files = <<>>
                  /\ Len(run[r].result.errors) = Len(files(r))
\* Every entry was fetched, both hops answering 200, and written.
AllFetchedAndWritten(r) ==
    /\ Len(run[r].stage) = Len(files(r))
    /\ \A i \in 1..Len(files(r)) : run[r].stage[i] = "ok"

\* The manifest file holds the JSON object m.
ManifestOnDiskIs(m) ==
    Loadable(disk[ManifestPath]) /\ JsonLoad(disk[ManifestPath]) = m

\* C3 as made: when the versions differ and every listed file is fetched
\* and written, the result is success with updated_files the file list,
\* every listed file holds the fetched bytes and the local manifest equals
\* the remote one.
C3_AllSuccessPersistence_AsClaimed ==
    \A r \in Procs :
        (SyncDone(r) /\ run[r].entered /\ AllFetchedAndWritten(r)) =>
            /\ run[r].result.status = "success"
            /\ run[r].result.updated_files = files(r)
            /\ \A p \in Listed(files(r)) : disk[p] = RawBytes(p)
            /\ ManifestOnDiskIs(run[r].remote_manifest_content)

\* C3 amended: when the versions differ, the file list is not empty, every
\* listed file is fetched and written and the write of the local manifest
\* does not fail, the result is success with updated_files the file list,
\* every listed file other than the manifest itself holds the fetched
\* bytes, and the manifest file holds the remote manifest, re-serialised.
C3_AllSuccessPersistence ==
    \A r \in Procs :
        ( /\ SyncDone(r) /\ run[r].entered /\ AllFetchedAndWritten(r)
          /\ files(r) # <<>>
          /\ run[r].saved \notin {"oserror", "torn"} ) =>
            /\ run[r].result.status = "success"
            /\ run[r].result.updated_files = files(r)
            /\ \A p \in Listed(files(r)) \ {ManifestPath} : disk[p] = RawBytes(p)
            /\ disk[ManifestPath] = JsonDump(run[r].remote_manifest_content)
            /\ ManifestOnDiskIs(run[r].remote_manifest_content)

\* C3's case: [A, B] both fetched and written, the manifest saved over an
\* older one.
C3_Witness ==
    \E r \in Procs :
        /\ SyncDone(r) /\ AllFetchedAndWritten(r)
        /\ Len(files(r)) = 2 /\ NoRepeats(files(r))
        /\ ManifestPath \notin Listed(files(r))
        /\ run[r].result.status = "success"
        /\ run[r].before = JsonDump([version |-> "1.0.0", files |-> <<>>])
        /\ run[r].saved = "ok"

\* C5: when the two versions are equal, update_files_from_github makes no
\* request after the two that resolve the manifest, opens no local file for
\* writing and returns no_update_needed with both lists empty.
C5_NoOpOnVersionMatch ==
    \A r \in Procs :
        ( /\ run[r].op = "sync"
          /\ run[r].pc # "version_gate"
          /\ run[r].local_manifest # NoManifest
          /\ Get(run[r].remote_manifest_content, "version", SentinelVersion)
                = Get(run[r].local_manifest, "version", SentinelVersion) ) =>
            /\ run[r].pc = "done"
            /\ run[r].result = SyncResult("no_update_needed", <<>>, <<>>)
            /\ run[r].requests = 2
            /\ run[r].opened = {}
            /\ ~ManifestChanged(r)

\* C5's case: equal versions "1.0.0" and a remote manifest that lists files.
C5_Witness ==
    \E r \in Procs :
        /\ SyncDone(r)
        /\ run[r].local_manifest # NoManifest
        /\ run[r].remote_manifest_content \in
              {[version |-> "1.0.0", files |-> f] : f \in FileLists(MaxFiles) \ {<<>>}}
        /\ Get(run[r].local_manifest, "version", SentinelVersion) = "1.0.0"
        /\ run[r].result.status = "no_update_needed"

\* C6: a run that entered the file loop returns success when the returned
\* errors is empty, partial when errors and updated_files are both
\* non-empty, failed when errors is non-empty and updated_files empty.
C6_OutcomeClassification ==
    \A r \in Procs :
        (SyncDone(r) /\ run[r].entered) =>
            LET res == run[r].result IN
            /\ res.status \in {"success", "partial", "failed"}
            /\ res.status = "success" <=> res.errors = <<>>
            /\ res.status = "partial" <=>
                    (res.errors # <<>> /\ res.updated_files # <<>>)
            /\ res.status = "failed" <=>
                    (res.errors # <<>> /\ res.updated_files = <<>>)

\* C6's case: a completed loop with one file updated and one failed.
C6_Witness ==
    \E r \in Procs :
        /\ SyncDone(r) /\ LoopCompleted(r)
        /\ run[r].result.status = "partial"
        /\ Len(run[r].result.updated_files) = 1
        /\ Len(run[r].result.errors) = 1

\* C8 as made: for every file list, no path of the returned updated_files
\* is named by an error of the same run.
C8_NoUpdatedPathWithError_AsClaimed ==
    \A r \in Procs :
        SyncDone(r) =>
            \A i \in 1..Len(run[r].result.updated_files) :
                \A j \in 1..Len(run[r].result.errors) :
                    run[r].result.errors[j].path # run[r].result.updated_files[i]

\* C8 amended: for every file list in which no path occurs twice, no path
\* of the returned updated_files is named by an error of the same run.
C8_NoUpdatedPathWithError ==
    \A r \in Procs :
        (SyncDone(r) /\ NoRepeats(files(r))) =>
            \A i \in 1..Len(run[r].result.updated_files) :
                \A j \in 1..Len(run[r].result.errors) :
                    run[r].result.errors[j].path # run[r].result.updated_files[i]

\* C8's case: a list without repeats, of which a file was updated and
\* another failed.
C8_Witness ==
    \E r \in Procs :
        /\ SyncDone(r) /\ LoopCompleted(r)
        /\ Len(files(r)) >= 2 /\ NoRepeats(files(r))
        /\ run[r].result.updated_files # <<>>
        /\ run[r].result.errors # <<>>
\* The version of the local manifest as the call found it on disk.
VersionBefore(r) ==
    IF run[r].before = Absent THEN SentinelVersion
    ELSE Get(JsonLoad(run[r].before), "version", SentinelVersion)

\* C9: without a local manifest file the local version is "0.0.0", and a
\* call that resolved the remote manifest reports an update, or enters the
\* file loop, exactly when the two version strings differ, whatever their
\* order.
C9_SentinelAndEqualityGate ==
    \A r \in Procs :
        (run[r].pc = "done" /\ run[r].local_manifest # NoManifest) =>
            LET rv == Get(run[r].remote_manifest_content, "version", SentinelVersion)
                lv == VersionBefore(r) IN
            /\ run[r].before = Absent =>
                    Get(run[r].local_manifest, "version", SentinelVersion) = "0.0.0"
            /\ run[r].op = "check" =>
                    /\ run[r].result.update_available = (rv # lv)
                    /\ run[r].result.remote_version = rv
            /\ run[r].op = "sync" => run[r].entered = (rv # lv)

\* C9's case: no local manifest, remote version "1.0.0", an update reported.
C9_Witness ==
    \E r \in Procs :
        /\ CheckDone(r)
        /\ run[r].before = Absent
        /\ Get(run[r].remote_manifest_content, "version", SentinelVersion) = "1.0.0"
        /\ run[r].result.update_available

\* The other case of C9: a remote version below the local one is an update.
C9_LowerVersionCase ==
    \E r \in Procs :
        /\ SyncDone(r) /\ run[r].entered
        /\ VersionBefore(r) = "1.0.0"
        /\ Get(run[r].remote_manifest_content, "version", SentinelVersion) = "0.0.0"

\* C10: no step of check_updates_available changes a file of local_dir, and
\* a step that changes one is a step of update_files_from_github.
C10_CheckIsReadOnly ==
    [][ /\ \A r \in Procs :
            ((run[r].op = "check" \/ run'[r].op = "check") /\ run'[r] # run[r])
                => disk' = disk
        /\ disk' # disk =>
            \E r \in Procs : run[r].op = "sync" /\ run'[r] # run[r] ]_vars

\* C10's case: a check that found an update, the manifest file as it was.
C10_Witness ==
    \E r \in Procs :
        /\ CheckDone(r)
        /\ run[r].result.update_available
        /\ run[r].before # Absent
        /\ disk[ManifestPath] = run[r].before
\* The previous call of r was an update and the repository has not been
\* republished since that call began.
SecondSyncUnchanged(r) ==
    /\ SyncDone(r)
    /\ prev[r].op = "sync"
    /\ prev[r].rev0 = remote.rev

\* C4 as made: of two updates in succession against an unchanged remote
\* manifest, the second returns no_update_needed.  Stated of the second
\* calls that resolve the remote manifest and load the local one.
C4_Idempotence_AsClaimed ==
    \A r \in Procs :
        (SecondSyncUnchanged(r) /\ run[r].local_manifest # NoManifest)
            => run[r].result.status = "no_update_needed"

\* C4 amended: of two updates in succession against an unchanged remote
\* manifest, the first of which returned success with a file updated, the
\* second returns no_update_needed if it resolves the remote manifest.
C4_Idempotence ==
    \A r \in Procs :
        ( /\ SecondSyncUnchanged(r)
          /\ prev[r].result.status = "success"
          /\ prev[r].result.updated_files # <<>>
          /\ run[r].remote_manifest_content # NoManifest ) =>
            run[r].result = SyncResult("no_update_needed", <<>>, <<>>)

\* C4's case: a first update from version "1.0.0" that succeeded, a second
\* that returned no_update_needed.
C4_Witness ==
    \E r \in Procs :
        /\ SecondSyncUnchanged(r)
        /\ prev[r].result.status = "success"
        /\ prev[r].result.updated_files # <<>>
        /\ run[r].result.status = "no_update_needed"
        /\ Get(run[r].remote_manifest_content, "version", SentinelVersion) = "2.0.0"

-----------------------------------------------------------------------------
(* The resolution of the remote manifest.                                  *)

\* The call is over and one of the two hops of the manifest failed.
ResolutionFailed(r) ==
    /\ run[r].pc = "done"
    /\ run[r].requests >= 1
    /\ run[r].remote_manifest_content = NoManifest

\* C11: when a hop of the manifest's resolution fails (metadata hop 404,
\* 403, another status or a fault; download hop non-200; body malformed),
\* update_files_from_github returns failed with updated_files empty and one
\* error, having made no request for a file and written nothing in
\* local_dir; check_updates_available returns update_available false,
\* remote_version None and one error.  Every call that is over has returned
\* a result of its own kind.
C11_TopLevelFailure ==
    \A r \in Procs :
        /\ run[r].pc = "done" =>
                /\ run[r].result # NoResult
                /\ run[r].result.kind = run[r].op
        /\ ResolutionFailed(r) =>
                /\ run[r].requests <= 2
                /\ ~run[r].entered /\ run[r].stage = <<>>
                /\ run[r].opened = {}
                /\ disk \in InitialDisks /\ ~ManifestChanged(r)
                /\ Len(run[r].result.errors) = 1
                /\ run[r].op = "sync" =>
                        /\ run[r].result.status = "failed"
                        /\ run[r].result.updated_files = <<>>
                /\ run[r].op = "check" =>
                        /\ run[r].result.update_available = FALSE
                        /\ run[r].result.remote_version = NoVersion

\* C11's case: the download hop of the manifest gave a malformed body (or
\* raised) while the listed files wait in the repository.
C11_Witness ==
    \E r \in Procs :
        /\ ResolutionFailed(r) /\ run[r].op = "sync"
        /\ run[r].requests = 2
        /\ run[r].result.errors[1].form = "Update failed"
        /\ Get(remote.manifest, "files", <<>>) # <<>>

-----------------------------------------------------------------------------
(* The order of the two lists.                                             *)

\* s is t with some of its elements left out.
RECURSIVE IsSubseq(_, _)
IsSubseq(s, t) ==
    IF s = <<>> THEN TRUE
    ELSE IF t = <<>> THEN FALSE
    ELSE IF Head(s) = Head(t) THEN IsSubseq(Tail(s), Tail(t))
    ELSE IsSubseq(s, Tail(t))

\* The file paths the errors name.
ErrorPaths(errs) == [i \in 1..Len(errs) |-> errs[i].path]

\* The entries of the file list the loop has been through.
Processed(r) == SubSeq(files(r), 1, Len(run[r].stage))

\* C12: in every run of update_files_from_github, updated_files and the
\* paths named by errors are each a subsequence of the remote manifest's
\* file list, during the loop (of the entries processed so far) and in the
\* returned result; the one error of a top-level failure names no entry.
C12_OrderPreservation ==
    \A r \in Procs :
        run[r].op = "sync" =>
            /\ IsSubseq(run[r].updated_files, Processed(r))
            /\ IsSubseq(ErrorPaths(run[r].errors), Processed(r))
            /\ run[r].pc = "done" =>
                /\ IsSubseq(run[r].result.updated_files, files(r))
                /\ \/ IsSubseq(ErrorPaths(run[r].result.errors), files(r))
                   \/ ErrorPaths(run[r].result.errors) = <<NoPath>>

\* C12's case: three files, the second updated, the first and third failed.
C12_Witness ==
    \E r \in Procs :
        /\ SyncDone(r) /\ LoopCompleted(r)
        /\ Len(files(r)) = 3 /\ NoRepeats(files(r))
        /\ run[r].result.updated_files = <<files(r)[2]>>
        /\ ErrorPaths(run[r].result.errors) = <<files(r)[1], files(r)[3]>>

-----------------------------------------------------------------------------
(* The download hop of a listed file.                                      *)

\* C13: for a listed file whose metadata hop answers 200 and whose download
\* hop does not, update_files_from_github records an error for the file,
\* writes nothing to its local destination and does not add its path to
\* updated_files; a path of updated_files is one whose fetched bytes have
\* been written.  Stated of lists of ordinary files that repeat no path.
C13_ContentHopFailure ==
    \A r \in Procs :
        ( /\ run[r].op = "sync"
          /\ NoRepeats(files(r))
          /\ ManifestPath \notin Listed(files(r)) ) =>
            /\ \A p \in Paths : disk[p].t # "errbody"
            /\ \A i \in 1..Len(run[r].stage) :
                    run[r].stage[i] = "content" =>
                        /\ files(r)[i] \notin Listed(run[r].updated_files)
                        /\ files(r)[i] \in Listed(ErrorPaths(run[r].errors))
            /\ \A p \in Listed(run[r].updated_files) : disk[p] = RawBytes(p)

-----------------------------------------------------------------------------
(* The load of the local manifest.                                         *)

\* C14: a local manifest file that exists but cannot be read as JSON is
\* treated as an absent one, that is as {version: "0.0.0", files: []}: the
\* call that has resolved the remote manifest goes on through the version
\* gate with local version "0.0.0".
C14_UnreadableLocalManifestDefault ==
    \A r \in Procs :
        ( /\ run[r].remote_manifest_content # NoManifest
          /\ run[r].pc # "load_local"
          /\ run[r].before # Absent
          /\ ~Loadable(run[r].before) ) =>
            /\ run[r].local_manifest # NoManifest
            /\ local_version(r) = SentinelVersion
            /\ Get(run[r].local_manifest, "files", <<>>) = <<>>
            /\ (run[r].pc = "done" /\ run[r].op = "check") =>
                    run[r].result =
                        CheckResult(remote_version(r) # SentinelVersion,
                                    remote_version(r), <<>>)
            /\ (run[r].pc = "done" /\ run[r].op = "sync") =>
                    run[r].entered = (remote_version(r) # SentinelVersion)

-----------------------------------------------------------------------------
(* The order of the steps of one update.                                   *)

InLoop == {"file_meta", "file_content", "file_write"}

\* Where the run stands: the requests it may have made so far, and the
\* entries it is through, at each position in the code.
StepPosition(r) ==
    LET st == run[r]
        n == Len(files(r)) IN
    /\ st.pc \in InLoop \cup {"save", "classify"} =>
            /\ st.remote_manifest_content # NoManifest
            /\ st.requests >= 2
    /\ st.pc \in InLoop =>
            /\ st.idx \in 1..n
            /\ Len(st.stage) = st.idx - 1
            /\ Len(st.updated_files) + Len(st.errors) = st.idx - 1
            /\ st.saved = "no"
    /\ st.pc = "file_meta" => st.requests <= 2 + 2 * (st.idx - 1)
    /\ st.pc = "file_content" => st.requests <= 2 + 2 * (st.idx - 1) + 1
    /\ st.pc = "file_write" => st.requests <= 2 + 2 * st.idx
    /\ st.pc \in {"save", "classify"} =>
            /\ Len(st.stage) = n
            /\ st.requests <= 2 + 2 * n
    /\ st.saved # "no" => Len(st.stage) = n

\* What one step of the run may do.
StepOrder(r) ==
    LET st == run[r]
        nx == run'[r]
        recorded == /\ Len(nx.stage) = Len(st.stage) + 1
                    /\ nx.idx = st.idx + 1
                    /\ Len(nx.updated_files) + Len(nx.errors) =
                            Len(st.updated_files) + Len(st.errors) + 1
                    /\ nx.pc \in {"file_meta", "save"} IN
    /\ nx.requests \in {st.requests, st.requests + 1}
    /\ nx.requests # st.requests =>
            st.pc \in {"manifest_meta", "manifest_content", "file_meta", "file_content"}
    /\ st.pc = "file_meta" =>
            /\ nx.requests = st.requests + 1
            /\ \/ nx.pc = "file_content" /\ nx.idx = st.idx /\ nx.stage = st.stage
               \/ recorded /\ Len(nx.errors) = Len(st.errors) + 1
    /\ nx.pc = "file_content" => st.pc = "file_meta"
    /\ st.pc = "file_content" =>
            \/ /\ nx.pc = "file_write" /\ nx.idx = st.idx /\ nx.stage = st.stage
               /\ nx.requests = st.requests + 1
            \/ recorded /\ Len(nx.errors) = Len(st.errors) + 1
    /\ nx.pc = "file_write" => st.pc = "file_content"
    /\ st.pc = "file_write" => recorded /\ nx.requests = st.requests
    /\ nx.pc = "file_meta" => nx.idx = st.idx + 1
    /\ nx.idx # st.idx =>
            /\ nx.idx = st.idx + 1
            /\ st.pc = "version_gate" \/ Len(nx.stage) = Len(st.stage) + 1
    /\ nx.pc = "save" => st.pc # "save" /\ nx.idx = Len(files(r)) + 1
    /\ nx.saved # st.saved => st.pc = "save" /\ st.saved = "no"
    /\ st.pc = "save" => nx.pc \in {"classify", "done"}
    /\ disk'[ManifestPath] # disk[ManifestPath] =>
            \/ st.pc = "save"
            \/ st.pc = "file_write" /\ file_path(r) = ManifestPath

-----------------------------------------------------------------------------
(* One call whose every request and file operation returns.                *)

InitLive ==
    /\ remote \in {[rev |-> 0, manifest |-> m] : m \in Manifests(MaxLiveFiles)}
    /\ disk \in InitialDisks
    /\ run = [r \in Procs |-> IdleRun]
    /\ active = {1}
    /\ prev = [r \in Procs |-> NoPrev]

\* requests.get and the file operations block until they return: a call
\* that can take its next step takes it.
SpecLive == InitLive /\ [][Next]_vars /\ \A r \in Procs : WF_vars(Step(r))

\* The states of a run, as the result and the history of the call show
\* them: it passed the version check, it entered the loop over the files,
\* it reached the classification after the loop.
PassedVersionCheck(r) == run[r].local_manifest # NoManifest
EnteredSynchronizing(r) == run[r].entered
PassedClassify(r) == LoopCompleted(r) /\ run[r].saved \in {"no", "ok"}

Outcomes == {"no_update_needed", "success", "partial", "failed"}

\* The outcome of a finished run and the way it came to it, as claimed.
ClaimedPaths(r) ==
    LET status == run[r].result.status IN
    /\ status \in Outcomes
    /\ status = "no_update_needed" =>
            PassedVersionCheck(r) /\ ~EnteredSynchronizing(r)
    /\ status \in {"success", "partial", "failed"} =>
            /\ PassedVersionCheck(r) /\ EnteredSynchronizing(r)
            /\ PassedClassify(r)

\* C16 as made: every finished run of update_files_from_github has one of
\* the four outcomes, reached through the version check and then either
\* no_update_needed, or the loop and the classification.  Stated of the
\* runs that made a request.
C16_StateMachine_AsClaimed ==
    \A r \in Procs : (SyncDone(r) /\ run[r].requests >= 1) => ClaimedPaths(r)

\* The outcome of a finished run and the way it came to it.
ActualPaths(r) ==
    LET status == run[r].result.status IN
    /\ status \in Outcomes
    /\ status = "no_update_needed" =>
            PassedVersionCheck(r) /\ ~EnteredSynchronizing(r)
    /\ status \in {"success", "partial"} =>
            /\ PassedVersionCheck(r) /\ EnteredSynchronizing(r)
            /\ PassedClassify(r)
    /\ status = "failed" =>
            \/ /\ PassedVersionCheck(r) /\ EnteredSynchronizing(r)
               /\ PassedClassify(r)
            \/ /\ ~EnteredSynchronizing(r)
               /\ run[r].result = TopLevelFailure("sync", run[r].result.errors[1].form)
            \/ /\ LoopCompleted(r) /\ run[r].saved \in {"oserror", "torn"}
               /\ run[r].result = TopLevelFailure("sync", "Update failed")
    /\ ~EnteredSynchronizing(r) => status \in {"no_update_needed", "failed"}

\* C16 amended: if every request and file operation returns, every run of
\* update_files_from_github ends, with one of the four outcomes:
\* no_update_needed only from the version check, without entering the loop;
\* success and partial only through the loop and the classification; failed
\* through the classification, or straight from the steps before the loop
\* (directory, manifest resolution, load of the local manifest), or from the
\* save of the local manifest after the loop.
C16_StateMachineTermination ==
    /\ [](\A r \in Procs : SyncDone(r) => ActualPaths(r))
    /\ \A r \in Procs :
            (run[r].op = "sync" /\ run[r].pc # "done") ~> SyncDone(r)

\* C16's case: a run that ended partial, after the loop and the
\* classification.
C16_Witness ==
    \E r \in Procs :
        /\ SyncDone(r) /\ PassedClassify(r)
        /\ run[r].result.status = "partial"
        /\ Len(files(r)) = 2

-----------------------------------------------------------------------------
(* Two processes updating the same local_dir.                              *)

\* Two instances of the application started in the same directory, freshly
\* installed, against a repository that holds release "1.0.0".
InitConc ==
    /\ remote \in {[rev |-> 0, manifest |-> [version |-> "1.0.0", files |-> f]] :
                    f \in FileLists(MaxConcFiles)}
    /\ disk = [p \in Paths |-> Absent]
    /\ run = [r \in Procs |-> IdleRun]
    /\ active = Procs
    /\ prev = [r \in Procs |-> NoPrev]

\* The instances are alike: they press the button in the order of their
\* numbers.
Press(r) ==
    /\ \A q \in Procs : q < r => run[q].pc # "idle"
    /\ Call(r, "sync")

\* A release pushed while an instance has yet to press the button.
Release ==
    /\ \E q \in Procs : run[q].pc = "idle"
    /\ Publish

NextConc ==
    \/ \E r \in Procs :
        \/ Press(r)
        \/ Step(r)
    \/ Release

SpecConc == InitConc /\ [][NextConc]_vars

\* The run is over and no call of another process overlapped it or began
\* after it.
RanAloneLast(r) ==
    /\ run[r].pc = "done"
    /\ \/ run[r].order = "after"
       \/ run[r].order = "first" /\ \A q \in Procs \ {r} : run[q].pc = "idle"

\* The last element of updated_files that is path p.
LastUpdate(r, p) ==
    CHOOSE i \in 1..Len(run[r].updated_files) :
        /\ run[r].updated_files[i] = p
        /\ \A j \in (i + 1)..Len(run[r].updated_files) : run[r].updated_files[j] # p

\* local_dir holds what run r fetched: the manifest file its remote
\* manifest, every other listed file the bytes r got for it.
HoldsWhatWasFetched(r) ==
    /\ ManifestOnDiskIs(run[r].remote_manifest_content)
    /\ \A p \in Listed(files(r)) \ {ManifestPath} :
            /\ p \in Listed(run[r].updated_files)
            /\ disk[p] = run[r].written[LastUpdate(r, p)]

\* C17: the updater takes no lock on local_dir.  Run one at a time, a run
\* that returns success on a non-empty file list leaves the manifest file
\* and every listed file holding what it fetched; two runs interleaved on
\* the same local_dir, each with another version of the remote manifest,
\* can both return success and leave the manifest of one with a listed
\* file written by the other (C17_Witness), and between them the files of
\* local_dir are written by whichever run steps.
C17_NoLockOnLocalDir ==
    \A r \in Procs :
        ( /\ SyncDone(r) /\ RanAloneLast(r)
          /\ run[r].result.status = "success"
          /\ files(r) # <<>> ) => HoldsWhatWasFetched(r)

\* C17's case: both runs returned success, each on another version; the
\* manifest file records the version of one, a file they both list holds
\* the bytes the other wrote, which are not the bytes the one wrote.
C17_Witness ==
    \E r, q \in Procs :
        /\ r # q
        /\ SyncDone(r) /\ run[r].result.status = "success"
        /\ SyncDone(q) /\ run[q].result.status = "success"
        /\ remote_version(r) # remote_version(q)
        /\ disk[ManifestPath] = JsonDump(run[r].remote_manifest_content)
        /\ \E p \in (Listed(files(r)) \cap Listed(files(q))) \ {ManifestPath} :
                /\ disk[p] = run[q].written[LastUpdate(q, p)]
                /\ disk[p] # run[r].written[LastUpdate(r, p)]
                /\ disk[p].t = "raw"

-----------------------------------------------------------------------------
(* The local manifest after a success.                                     *)

\* The previous call of r was an update that returned success, and the
\* repository has not been republished since that call began.
AfterSuccessUnchanged(r) ==
    /\ prev[r].op = "sync"
    /\ prev[r].result.status = "success"
    /\ prev[r].rev0 = remote.rev

\* C18 as made: for every remote manifest, an empty file list included,
\* when update_files_from_github returns success the local manifest file
\* holds the remote manifest the run fetched, and a check that follows at
\* once against the unchanged repository returns update_available false.
C18_SuccessMirrorsManifest_AsClaimed ==
    \A r \in Procs :
        /\ (SyncDone(r) /\ run[r].result.status = "success") =>
                ManifestOnDiskIs(run[r].remote_manifest_content)
        /\ (CheckDone(r) /\ AfterSuccessUnchanged(r)) =>
                run[r].result.update_available = FALSE

\* C18 amended: when update_files_from_github returns success with at
\* least one updated file, the local manifest file holds the remote
\* manifest the run fetched, and a check that follows at once against the
\* unchanged repository returns update_available false.
C18_SuccessMirrorsManifest ==
    \A r \in Procs :
        /\ ( /\ SyncDone(r) /\ run[r].result.status = "success"
             /\ run[r].result.updated_files # <<>> ) =>
                /\ ManifestOnDiskIs(run[r].remote_manifest_content)
                /\ disk[ManifestPath] = JsonDump(run[r].remote_manifest_content)
        /\ ( /\ CheckDone(r) /\ AfterSuccessUnchanged(r)
             /\ prev[r].result.updated_files # <<>> ) =>
                run[r].result.update_available = FALSE

\* C18's case: a success with an updated file, then a check that resolved
\* the unchanged remote manifest "2.0.0" and found no update.
C18_Witness ==
    \E r \in Procs :
        /\ CheckDone(r) /\ AfterSuccessUnchanged(r)
        /\ prev[r].result.updated_files # <<>>
        /\ run[r].result = CheckResult(FALSE, "2.0.0", <<>>)

-----------------------------------------------------------------------------
(* The version gate of the two functions.                                  *)

\* The local manifest file as the call found it is absent or loads.
LocalReadableOrAbsent(r) == run[r].before = Absent \/ Loadable(run[r].before)

\* What the gate makes of a remote manifest m and a local manifest file c:
\* the same for both functions.
GateOpen(m, c) ==
    Get(m, "version", SentinelVersion) #
        (IF c = Absent THEN SentinelVersion
         ELSE Get(JsonLoad(c), "version", SentinelVersion))

\* C19: for a remote manifest that resolves and a local manifest that is
\* absent or loads, check_updates_available returns update_available true
\* exactly when update_files_from_github, from the same remote and local
\* state, does not return no_update_needed (both are the one function
\* GateOpen of that state), and the remote_version the check returns is the
\* version the update compares.
C19_CheckAndSyncAgreeOnGate ==
    \A r \in Procs :
        ( /\ run[r].pc = "done"
          /\ run[r].remote_manifest_content # NoManifest
          /\ LocalReadableOrAbsent(r) ) =>
            LET open == GateOpen(run[r].remote_manifest_content, run[r].before) IN
            /\ run[r].op = "check" =>
                    /\ run[r].result.update_available = open
                    /\ run[r].result.remote_version = remote_version(r)
                    /\ run[r].result.errors = <<>>
            /\ run[r].op = "sync" =>
                    /\ (run[r].result.status # "no_update_needed") = open
                    /\ open = VersionsDiffer(r)

\* C19's case: no local manifest, remote version "1.0.0": the check, whose
\* default manifest is not the update's, reports the update.
C19_Witness ==
    \E r \in Procs :
        /\ CheckDone(r)
        /\ run[r].before = Absent
        /\ remote_version(r) = "1.0.0"
        /\ run[r].local_manifest = DefaultLocalCheck
        /\ run[r].result = CheckResult(TRUE, "1.0.0", <<>>)

-----------------------------------------------------------------------------
(* The writes a result accounts for.                                       *)

\* C20: in every run of update_files_from_github, one whose final write of
\* the local manifest fails included, every listed file whose write
\* completed is in the updated_files of the result; a result with
\* updated_files empty is the result of a run that completed no write of a
\* listed file.  Stated of lists of ordinary files.
C20_UpdatedFilesAccountForWrites ==
    \A r \in Procs :
        (SyncDone(r) /\ ManifestPath \notin Listed(files(r))) =>
            /\ \A i \in 1..Len(run[r].written) :
                    run[r].updated_files[i] \in Listed(run[r].result.updated_files)
            /\ run[r].result.updated_files = <<>> => run[r].written = <<>>
====
